---- MODULE Spec2Model ----
(***************************************************************************)
(* Model of GPU_Never_sleep.py: a supervisor (keep_all_gpus_alive) that    *)
(* enumerates the Vulkan GPUs (get_all_gpus), prints an inventory, starts  *)
(* one daemon thread per GPU (keep_single_gpu_alive) and then idles until  *)
(* it is interrupted.  Each thread opens a logical device, allocates 1 MiB *)
(* of device-local memory and resubmits one fill command forever.          *)
(*                                                                         *)
(* Granularity: one action per Vulkan call that returns a VkResult (and    *)
(* can therefore raise in the Python binding), with the void calls and the *)
(* pure Python around it folded into the neighbouring action.  The         *)
(* interrupt (KeyboardInterrupt) is delivered to the main thread between   *)
(* two supervisor actions.                                                 *)
(***************************************************************************)
EXTENDS Integers, Sequences, FiniteSets, TLC

(***************************************************************************)
(* Bounds of the model.                                                    *)
(***************************************************************************)
\* Largest number of physical devices the machine reports.
MaxDevices == 2
\* The iteration and submission counters saturate here (Python ints do not).
MaxIter == 1
\* Largest memoryTypeCount of a memory table given to find_memory_type alone.
MaxTypes == 3

(***************************************************************************)
(* Vulkan constants used by the program.                                   *)
(***************************************************************************)
VK_PHYSICAL_DEVICE_TYPE_INTEGRATED_GPU == 1
VK_PHYSICAL_DEVICE_TYPE_DISCRETE_GPU == 2
VK_PHYSICAL_DEVICE_TYPE_VIRTUAL_GPU == 3
VK_PHYSICAL_DEVICE_TYPE_CPU == 4

VK_QUEUE_GRAPHICS_BIT == 1
VK_QUEUE_COMPUTE_BIT == 2
VK_QUEUE_TRANSFER_BIT == 4

VK_MEMORY_PROPERTY_DEVICE_LOCAL_BIT == 1

\* Python's None where the program stores an index or None.
None == -1

(***************************************************************************)
(* Python's integer operators & and |, and 1 << i.                         *)
(***************************************************************************)
RECURSIVE BitAnd(_, _)
BitAnd(a, b) ==
    IF a = 0 \/ b = 0 THEN 0
    ELSE (a % 2) * (b % 2) + 2 * BitAnd(a \div 2, b \div 2)

RECURSIVE BitOr(_, _)
BitOr(a, b) ==
    IF a = 0 THEN b
    ELSE IF b = 0 THEN a
    ELSE (IF a % 2 = 1 \/ b % 2 = 1 THEN 1 ELSE 0) + 2 * BitOr(a \div 2, b \div 2)

Shl1(i) == 2 ^ i

Min(a, b) == IF a < b THEN a ELSE b

(***************************************************************************)
(* The machine: what the Vulkan loader reports for each physical device.   *)
(* queueFlags[i+1] is queue family i's queueFlags, memoryTypes[i+1] is     *)
(* memory type i's propertyFlags, memoryTypeBits is what                   *)
(* vkGetBufferMemoryRequirements reports for the 1 MiB buffer.             *)
(***************************************************************************)
PhysicalDeviceProfiles ==
    { \* discrete GPU: family 1 is the first with compute, type 0 is device-local
      [deviceType |-> VK_PHYSICAL_DEVICE_TYPE_DISCRETE_GPU,
       queueFlags |-> << 4, 2, 1 >>, memoryTypes |-> << 1, 6 >>, memoryTypeBits |-> 3],
      \* virtual GPU with a transfer-only queue family
      [deviceType |-> VK_PHYSICAL_DEVICE_TYPE_VIRTUAL_GPU,
       queueFlags |-> << 4 >>, memoryTypes |-> << 1 >>, memoryTypeBits |-> 1],
      \* integrated GPU whose only device-local type is not allowed for the buffer
      [deviceType |-> VK_PHYSICAL_DEVICE_TYPE_INTEGRATED_GPU,
       queueFlags |-> << 1 >>, memoryTypes |-> << 1, 2 >>, memoryTypeBits |-> 2],
      \* CPU implementation (a software rasteriser)
      [deviceType |-> VK_PHYSICAL_DEVICE_TYPE_CPU,
       queueFlags |-> << 7 >>, memoryTypes |-> << 3 >>, memoryTypeBits |-> 1] }

RECURSIVE SeqsUpTo(_, _)
SeqsUpTo(S, n) ==
    IF n = 0 THEN { << >> }
    ELSE LET shorter == SeqsUpTo(S, n - 1)
         IN  shorter \cup { Append(s, x) : s \in shorter, x \in S }

VARIABLES
    hw,          \* the machine's physical devices, as vkEnumeratePhysicalDevices lists them
    sup,         \* the main thread inside keep_all_gpus_alive
    exitStatus,  \* << >> while the process has not called exit, else << status >>
    workers,     \* the `threads` list: one record per started thread (its locals)
    objs,        \* the Vulkan objects that exist: handle -> state
    instances,   \* number of VkInstance objects created
    call         \* a call of find_memory_type on its own: arguments and result

vars == << hw, sup, exitStatus, workers, objs, instances, call >>

(***************************************************************************)
(* get_all_gpus                                                            *)
(***************************************************************************)
\* A filter that lets every device class through.
GpuDeviceTypesWithCpu ==
    { VK_PHYSICAL_DEVICE_TYPE_DISCRETE_GPU,
      VK_PHYSICAL_DEVICE_TYPE_INTEGRATED_GPU,
      VK_PHYSICAL_DEVICE_TYPE_VIRTUAL_GPU,
      VK_PHYSICAL_DEVICE_TYPE_CPU }

\* Lines 34-36: the three device types that count as GPUs.
GpuDeviceTypes ==
    { VK_PHYSICAL_DEVICE_TYPE_DISCRETE_GPU,
      VK_PHYSICAL_DEVICE_TYPE_INTEGRATED_GPU,
      VK_PHYSICAL_DEVICE_TYPE_VIRTUAL_GPU }

\* The loop of lines 30-37: device d (1-based position in the API's list) is
\* appended as the tuple (instance, device, props) when its type is a GPU type.
RECURSIVE FilterGpus(_, _, _)
FilterGpus(devs, inst, d) ==
    IF d > Len(devs) THEN << >>
    ELSE LET rest == FilterGpus(devs, inst, d + 1)
         IN  IF devs[d].deviceType \in GpuDeviceTypes
             THEN << [instance |-> inst, device |-> d, props |-> devs[d]] >> \o rest
             ELSE rest

\* api is what the Vulkan loader does: "ok", or which call raises.
get_all_gpus(devs, api) ==
    IF api = "ok" THEN FilterGpus(devs, 1, 1) ELSE << >>

InstancesCreatedBy(api) == IF api = "vkCreateInstance_fails" THEN 0 ELSE 1

ApiOutcomes == { "ok", "vkCreateInstance_fails", "vkEnumeratePhysicalDevices_fails" }

(***************************************************************************)
(* The supervisor's exception handlers (lines 232-239) and process exit.   *)
(***************************************************************************)
KeyboardInterrupt == [type |-> "KeyboardInterrupt", code |-> 0]
RuntimeError == [type |-> "Exception", code |-> 0]
SystemExit(c) == [type |-> "SystemExit", code |-> c]

\* Handlers that treat the interrupt like any other error.
SupervisorExitCodeInterruptIsError(exc) ==
    IF exc.type = "SystemExit" THEN exc.code ELSE 1

\* except KeyboardInterrupt: sys.exit(0); except Exception: sys.exit(1);
\* SystemExit is a BaseException: no clause matches it and it ends the
\* interpreter with its own code.
SupervisorExitCode(exc) ==
    IF exc.type = "KeyboardInterrupt" THEN 0
    ELSE IF exc.type = "Exception" THEN 1
    ELSE exc.code

\* Threads started without the daemon flag.
daemonNotSet == FALSE

\* threading.Thread(..., daemon=True)
daemon == TRUE

IsLive(w) == w.state \in { "Initializing", "Running" }

\* Interpreter shutdown joins the non-daemon threads that still run.
ShutdownPc(ws) ==
    IF daemon \/ \A i \in DOMAIN ws : ~ IsLive(ws[i]) THEN "exited" ELSE "joining"

\* exc leaves the try body of keep_all_gpus_alive while the main thread is in
\* state s: the process calls exit.  `raised` and `at` remember what was
\* raised and where.
Raise(s, exc) ==
    /\ exitStatus' = << SupervisorExitCode(exc) >>
    /\ sup' = [s EXCEPT !.pc = ShutdownPc(workers), !.raised = exc.type, !.at = sup.pc]

(***************************************************************************)
(* keep_all_gpus_alive                                                     *)
(***************************************************************************)
DeviceTypeName(t) ==
    IF t = VK_PHYSICAL_DEVICE_TYPE_DISCRETE_GPU THEN "Discrete"
    ELSE IF t = VK_PHYSICAL_DEVICE_TYPE_INTEGRATED_GPU THEN "Integrated"
    ELSE IF t = VK_PHYSICAL_DEVICE_TYPE_VIRTUAL_GPU THEN "Virtual"
    ELSE "Unknown"

\* The emptiness test left out.
NoGpusNeverTrue(gpus) == FALSE

\* Line 192: `if not gpus`.
NoGpus(gpus) == Len(gpus) = 0

\* The two for loops over gpus (lines 202 and 218) run no iteration on an
\* empty list.
AfterEnumeratePc(gpus) == IF Len(gpus) = 0 THEN "idle" ELSE "inventory"

\* A try block that ends after vkCreateInstance.
CaughtInEnumeratorInstanceOnly(api) == api # "vkEnumeratePhysicalDevices_fails"

\* Lines 9 and 40-42: both Vulkan calls of get_all_gpus are inside its try
\* block, whose `except Exception` returns [].
CaughtInEnumerator(api) == TRUE

\* Lines 190-200: enumerate, and sys.exit(1) when the list is empty.  `api`
\* remembers what the Vulkan loader did.
Enumerate ==
    /\ sup.pc = "enumerate"
    /\ \E api \in ApiOutcomes :
         LET gpus == get_all_gpus(hw, api)
             returned == [sup EXCEPT !.gpus = gpus, !.enumerated = TRUE, !.api = api]
         IN  /\ instances' = instances + InstancesCreatedBy(api)
             /\ IF api # "ok" /\ ~ CaughtInEnumerator(api)
                THEN Raise([sup EXCEPT !.api = api], RuntimeError)
                ELSE IF NoGpus(gpus)
                THEN Raise(returned, SystemExit(1))
                ELSE /\ sup' = [returned EXCEPT !.pc = AfterEnumeratePc(gpus)]
                     /\ UNCHANGED exitStatus
    /\ UNCHANGED << call, hw, workers, objs >>

\* Lines 202-217: one inventory line per GPU; after the last one the banner
\* is printed and `threads` starts empty.
PrintInventory ==
    /\ sup.pc = "inventory"
    /\ LET i == Len(sup.inventory)
           g == sup.gpus[i + 1]
           line == [index |-> i, device |-> g.device,
                    type |-> DeviceTypeName(g.props.deviceType)]
       IN  sup' = [sup EXCEPT !.inventory = Append(@, line),
                              !.pc = IF i + 1 = Len(sup.gpus) THEN "spawn" ELSE "inventory"]
    /\ UNCHANGED << call, hw, exitStatus, workers, objs, instances >>

NoHandle == [kind |-> "none", creator |-> 0, n |-> 0]

\* A target that reads the loop variables when the thread runs, after the
\* for loop has moved on to the last GPU.
NewWorkerLateBinding(g, i) ==
    [gpu_index |-> Len(sup.gpus) - 1,
     instance |-> sup.gpus[Len(sup.gpus)].instance,
     physical_device |-> sup.gpus[Len(sup.gpus)].device,
     state |-> "Initializing", pc |-> "select_queue",
     queue_family_index |-> None, memory_type_index |-> None,
     logical_device |-> NoHandle, queue |-> NoHandle, buffer |-> NoHandle,
     device_memory |-> NoHandle, command_pool |-> NoHandle,
     command_buffer |-> NoHandle,
     iteration |-> 0, log |-> << >>]

\* The locals of keep_single_gpu_alive when the thread starts running it with
\* args=(instance, device, props, i, interval).
NewWorker(g, i) ==
    [gpu_index |-> i, instance |-> g.instance, physical_device |-> g.device,
     state |-> "Initializing", pc |-> "select_queue",
     queue_family_index |-> None, memory_type_index |-> None,
     logical_device |-> NoHandle, queue |-> NoHandle, buffer |-> NoHandle,
     device_memory |-> NoHandle, command_pool |-> NoHandle,
     command_buffer |-> NoHandle,
     iteration |-> 0, log |-> << >>]

\* Lines 218-225: thread.start() and threads.append(thread) for GPU i.
Spawn ==
    /\ sup.pc = "spawn"
    /\ LET i == sup.i
       IN  workers' = Append(workers, NewWorker(sup.gpus[i + 1], i))
    /\ sup' = [sup EXCEPT !.pc = "pause"]
    /\ UNCHANGED << call, hw, exitStatus, objs, instances >>

\* thread.start() raises RuntimeError (the OS refuses a new thread).
SpawnFails ==
    /\ sup.pc = "spawn"
    /\ Raise(sup, RuntimeError)
    /\ UNCHANGED << call, hw, workers, objs, instances >>

\* Line 226: time.sleep(0.1) returns; the for loop goes on or ends, and then
\* the main thread stays in `while True: time.sleep(1)` (lines 229-230).
Pause ==
    /\ sup.pc = "pause"
    /\ sup' = [sup EXCEPT !.i = @ + 1,
                          !.pc = IF sup.i + 1 = Len(sup.gpus) THEN "idle" ELSE "spawn"]
    /\ UNCHANGED << call, hw, exitStatus, workers, objs, instances >>

TryBodyPcs == { "enumerate", "inventory", "spawn", "pause", "idle" }

\* Ctrl+C: KeyboardInterrupt is raised in the main thread inside the try body.
Interrupt ==
    /\ sup.pc \in TryBodyPcs
    /\ Raise(sup, KeyboardInterrupt)
    /\ UNCHANGED << call, hw, workers, objs, instances >>

(***************************************************************************)
(* Vulkan objects.  A handle names the thread that created the object; the *)
(* object's record keeps what later calls change or were given:            *)
(*   parent  the object it was created from or on,                         *)
(*   ref     buffer: the memory bound to it; command buffer: the buffer    *)
(*           its recorded fill targets; queue: the last command buffer     *)
(*           submitted to it,                                              *)
(*   index   the queue family index (device, queue, pool) or the memory    *)
(*           type index (memory) it was created with,                      *)
(*   count   queue: submissions made to it (saturating at MaxIter).        *)
(***************************************************************************)
NewHandle(kind, i) ==
    [kind |-> kind, creator |-> i,
     n |-> 1 + Cardinality({ h \in DOMAIN objs : h.kind = kind /\ h.creator = i })]

NewObject(st, parent, index) ==
    [state |-> st, parent |-> parent, ref |-> NoHandle, index |-> index, count |-> 0]

\* Module-level variables instead of locals: every thread sees the first
\* thread's values.
LocalIsGlobal(i, name) == workers[1][name]

\* A local variable of thread i's frame of keep_single_gpu_alive.
Local(i, name) == workers[i][name]

(***************************************************************************)
(* Lines 66-70: the first queue family with the compute or graphics bit.   *)
(***************************************************************************)
\* A mask that accepts any queue family that can transfer.
QueueMaskWithTransfer ==
    BitOr(BitOr(VK_QUEUE_COMPUTE_BIT, VK_QUEUE_GRAPHICS_BIT), VK_QUEUE_TRANSFER_BIT)

QueueMask == BitOr(VK_QUEUE_COMPUTE_BIT, VK_QUEUE_GRAPHICS_BIT)

\* A scan without the `break`: the last matching family wins.
ScanQueueFamiliesNoBreak(queue_families, i) ==
    LET matching == { k \in i..(Len(queue_families) - 1) :
                        BitAnd(queue_families[k + 1], QueueMask) # 0 }
    IN  IF matching = {} THEN None
        ELSE CHOOSE k \in matching : \A l \in matching : l <= k

\* Lines 64-70: the first family, from index i on, with the compute or the
\* graphics bit; None when there is none.
RECURSIVE ScanQueueFamilies(_, _)
ScanQueueFamilies(queue_families, i) ==
    IF i >= Len(queue_families) THEN None
    ELSE IF BitAnd(queue_families[i + 1], QueueMask) # 0 THEN i
    ELSE ScanQueueFamilies(queue_families, i + 1)

FirstQueueFamily(queue_families) == ScanQueueFamilies(queue_families, 0)

(***************************************************************************)
(* find_memory_type (lines 44-53)                                          *)
(***************************************************************************)
\* The test without the type filter.
MemoryTypeMatchesAnyFilter(memoryTypes, i, type_filter, properties) ==
    BitAnd(memoryTypes[i + 1], properties) = properties

\* The test with "some required flag" in place of "all required flags".
MemoryTypeMatchesSomeFlag(memoryTypes, i, type_filter, properties) ==
    /\ BitAnd(type_filter, Shl1(i)) # 0
    /\ BitAnd(memoryTypes[i + 1], properties) # 0

\* Line 51: the type is allowed by the filter and has every required flag.
MemoryTypeMatches(memoryTypes, i, type_filter, properties) ==
    /\ BitAnd(type_filter, Shl1(i)) # 0
    /\ BitAnd(memoryTypes[i + 1], properties) = properties

RECURSIVE ScanMemoryTypes(_, _, _, _)
ScanMemoryTypes(memoryTypes, i, type_filter, properties) ==
    IF i >= Len(memoryTypes) THEN None
    ELSE IF MemoryTypeMatches(memoryTypes, i, type_filter, properties) THEN i
    ELSE ScanMemoryTypes(memoryTypes, i + 1, type_filter, properties)

find_memory_type(physical_device, type_filter, properties) ==
    ScanMemoryTypes(physical_device.memoryTypes, 0, type_filter, properties)

(***************************************************************************)
(* keep_single_gpu_alive                                                   *)
(***************************************************************************)
\* A thread runs while the process has not ended.
CanRun(i) == i \in DOMAIN workers /\ sup.pc # "exited"

\* A main thread that joins its threads and returns when all have ended.
AfterWorkerStepJoinsAll(ws) ==
    sup' = IF sup.pc \in { "joining", "idle" } /\ \A j \in DOMAIN ws : ~ IsLive(ws[j])
           THEN [sup EXCEPT !.pc = "exited"] ELSE sup

\* A process that is joining its non-daemon threads ends with the last one.
AfterWorkerStep(ws) ==
    sup' = IF sup.pc = "joining" /\ \A j \in DOMAIN ws : ~ IsLive(ws[j])
           THEN [sup EXCEPT !.pc = "exited"] ELSE sup

Logged(w, what) == Append(w.log, [what |-> what, gpu_index |-> w.gpu_index])

\* Lines 60-74.
SelectQueue(i) ==
    /\ CanRun(i)
    /\ workers[i].pc = "select_queue"
    /\ LET w == workers[i]
           queue_family_index == FirstQueueFamily(hw[w.physical_device].queueFlags)
       IN  workers' = [workers EXCEPT ![i] =
               IF queue_family_index = None
               THEN [w EXCEPT !.state = "SkippedNoQueue", !.pc = "done",
                              !.log = Logged(w, "no suitable queue")]
               ELSE [w EXCEPT !.queue_family_index = queue_family_index,
                              !.pc = "create_device"]]
    /\ AfterWorkerStep(workers')
    /\ UNCHANGED << call, hw, exitStatus, objs, instances >>

\* Lines 76-91: vkCreateDevice with one queue of the chosen family, vkGetDeviceQueue.
CreateDevice(i) ==
    /\ CanRun(i)
    /\ workers[i].pc = "create_device"
    /\ LET w == workers[i]
           logical_device == NewHandle("device", i)
           queue == NewHandle("queue", i)
       IN  /\ objs' = objs @@ (logical_device :>
                                  NewObject("created", NoHandle, Local(i, "queue_family_index")))
                           @@ (queue :>
                                  NewObject("idle", logical_device, Local(i, "queue_family_index")))
           /\ workers' = [workers EXCEPT ![i] =
                  [w EXCEPT !.logical_device = logical_device, !.queue = queue,
                            !.pc = "create_buffer"]]
    /\ AfterWorkerStep(workers')
    /\ UNCHANGED << call, hw, exitStatus, instances >>

\* Lines 93-103: vkCreateBuffer.
CreateBuffer(i) ==
    /\ CanRun(i)
    /\ workers[i].pc = "create_buffer"
    /\ LET w == workers[i]
           buffer == NewHandle("buffer", i)
       IN  /\ objs' = objs @@ (buffer :> NewObject("unbound", Local(i, "logical_device"), None))
           /\ workers' = [workers EXCEPT ![i] =
                  [w EXCEPT !.buffer = buffer, !.pc = "select_memory"]]
    /\ AfterWorkerStep(workers')
    /\ UNCHANGED << call, hw, exitStatus, instances >>

\* Lines 105-117: vkGetBufferMemoryRequirements and find_memory_type.
SelectMemory(i) ==
    /\ CanRun(i)
    /\ workers[i].pc = "select_memory"
    /\ LET w == workers[i]
           physical_device == hw[w.physical_device]
           memory_type_index ==
               find_memory_type(physical_device, physical_device.memoryTypeBits,
                                VK_MEMORY_PROPERTY_DEVICE_LOCAL_BIT)
       IN  workers' = [workers EXCEPT ![i] =
               IF memory_type_index = None
               THEN [w EXCEPT !.state = "SkippedNoMemoryType", !.pc = "done",
                              !.log = Logged(w, "no suitable VRAM")]
               ELSE [w EXCEPT !.memory_type_index = memory_type_index,
                              !.pc = "allocate"]]
    /\ AfterWorkerStep(workers')
    /\ UNCHANGED << call, hw, exitStatus, objs, instances >>

\* Lines 119-126: vkAllocateMemory.
Allocate(i) ==
    /\ CanRun(i)
    /\ workers[i].pc = "allocate"
    /\ LET w == workers[i]
           device_memory == NewHandle("memory", i)
       IN  /\ objs' = objs @@ (device_memory :>
                                  NewObject("allocated", Local(i, "logical_device"),
                                            Local(i, "memory_type_index")))
           /\ workers' = [workers EXCEPT ![i] =
                  [w EXCEPT !.device_memory = device_memory, !.pc = "bind"]]
    /\ AfterWorkerStep(workers')
    /\ UNCHANGED << call, hw, exitStatus, instances >>

\* Lines 128-129: vkBindBufferMemory.
Bind(i) ==
    /\ CanRun(i)
    /\ workers[i].pc = "bind"
    /\ LET buffer == Local(i, "buffer")
       IN  objs' = [objs EXCEPT ![buffer] =
               [@ EXCEPT !.state = "bound", !.ref = Local(i, "device_memory")]]
    /\ workers' = [workers EXCEPT ![i].pc = "create_pool"]
    /\ AfterWorkerStep(workers')
    /\ UNCHANGED << call, hw, exitStatus, instances >>

\* Lines 131-138: vkCreateCommandPool.
CreatePool(i) ==
    /\ CanRun(i)
    /\ workers[i].pc = "create_pool"
    /\ LET w == workers[i]
           command_pool == NewHandle("pool", i)
       IN  /\ objs' = objs @@ (command_pool :>
                                  NewObject("created", Local(i, "logical_device"),
                                            Local(i, "queue_family_index")))
           /\ workers' = [workers EXCEPT ![i] =
                  [w EXCEPT !.command_pool = command_pool, !.pc = "alloc_cmdbuf"]]
    /\ AfterWorkerStep(workers')
    /\ UNCHANGED << call, hw, exitStatus, instances >>

\* Lines 140-154: vkAllocateCommandBuffers, the start notice, iteration = 0.
AllocCmdBuf(i) ==
    /\ CanRun(i)
    /\ workers[i].pc = "alloc_cmdbuf"
    /\ LET w == workers[i]
           command_buffer == NewHandle("cmdbuf", i)
       IN  /\ objs' = objs @@ (command_buffer :>
                                  NewObject("initial", Local(i, "command_pool"), None))
           /\ workers' = [workers EXCEPT ![i] =
                  [w EXCEPT !.command_buffer = command_buffer, !.state = "Running",
                            !.iteration = 0, !.log = Logged(w, "started"),
                            !.pc = "begin"]]
    /\ AfterWorkerStep(workers')
    /\ UNCHANGED << call, hw, exitStatus, instances >>

\* Lines 157-161: vkBeginCommandBuffer.
Begin(i) ==
    /\ CanRun(i)
    /\ workers[i].pc = "begin"
    /\ LET command_buffer == Local(i, "command_buffer")
       IN  objs' = [objs EXCEPT ![command_buffer] =
               [@ EXCEPT !.state = "recording", !.ref = NoHandle]]
    /\ workers' = [workers EXCEPT ![i].pc = "fill"]
    /\ AfterWorkerStep(workers')
    /\ UNCHANGED << call, hw, exitStatus, instances >>

\* Line 163: vkCmdFillBuffer over the whole buffer.
Fill(i) ==
    /\ CanRun(i)
    /\ workers[i].pc = "fill"
    /\ LET command_buffer == Local(i, "command_buffer")
       IN  objs' = [objs EXCEPT ![command_buffer].ref = Local(i, "buffer")]
    /\ workers' = [workers EXCEPT ![i].pc = "end"]
    /\ AfterWorkerStep(workers')
    /\ UNCHANGED << call, hw, exitStatus, instances >>

\* Line 164: vkEndCommandBuffer.
End(i) ==
    /\ CanRun(i)
    /\ workers[i].pc = "end"
    /\ LET command_buffer == Local(i, "command_buffer")
       IN  objs' = [objs EXCEPT ![command_buffer].state = "executable"]
    /\ workers' = [workers EXCEPT ![i].pc = "submit"]
    /\ AfterWorkerStep(workers')
    /\ UNCHANGED << call, hw, exitStatus, instances >>

\* Lines 167-173: vkQueueSubmit of the one command buffer.
Submit(i) ==
    /\ CanRun(i)
    /\ workers[i].pc = "submit"
    /\ LET queue == Local(i, "queue")
           command_buffer == Local(i, "command_buffer")
       IN  objs' = [objs EXCEPT
               ![queue] = [@ EXCEPT !.state = "busy", !.ref = command_buffer,
                                    !.count = Min(@ + 1, MaxIter)],
               ![command_buffer] = [@ EXCEPT !.state = "pending"]]
    /\ workers' = [workers EXCEPT ![i].pc = "wait_idle"]
    /\ AfterWorkerStep(workers')
    /\ UNCHANGED << call, hw, exitStatus, instances >>

\* Lines 174-176: vkQueueWaitIdle returns, iteration += 1.
WaitIdle(i) ==
    /\ CanRun(i)
    /\ workers[i].pc = "wait_idle"
    /\ LET queue == Local(i, "queue")
           submitted == objs[queue].ref
       IN  objs' = [objs EXCEPT
               ![queue] = [@ EXCEPT !.state = "idle"],
               ![submitted] = [@ EXCEPT !.state = "executable"]]
    /\ workers' = [workers EXCEPT ![i] =
           [@ EXCEPT !.iteration = Min(@ + 1, MaxIter), !.pc = "sleep"]]
    /\ AfterWorkerStep(workers')
    /\ UNCHANGED << call, hw, exitStatus, instances >>

\* A loop that resubmits the recorded command buffer without recording again.
AfterSleepPcResubmits == "submit"

\* A loop body that runs once: the function returns after the first sleep.
AfterSleepPcReturns == "done"

\* A loop that allocates its command buffer in every iteration.
AfterSleepPcReallocates == "alloc_cmdbuf"

\* Where `while True` continues once time.sleep(interval) returns.
AfterSleepPc == "begin"

\* Line 178: time.sleep(interval) returns.
Sleep(i) ==
    /\ CanRun(i)
    /\ workers[i].pc = "sleep"
    /\ workers' = [workers EXCEPT ![i].pc = AfterSleepPc]
    /\ AfterWorkerStep(workers')
    /\ UNCHANGED << call, hw, exitStatus, objs, instances >>

\* The calls that return a VkResult, which the binding turns into an exception.
FalliblePcs ==
    { "create_device", "create_buffer", "allocate", "bind", "create_pool",
      "alloc_cmdbuf", "begin", "end", "submit", "wait_idle" }

\* A handler that stops every thread (a shared stop flag set on error).
OnExceptionStopsAll(ws, i) ==
    [j \in DOMAIN ws |->
        IF j = i \/ IsLive(ws[j])
        THEN [ws[j] EXCEPT !.state = "Failed", !.pc = "done",
                           !.log = Logged(ws[j], "error")]
        ELSE ws[j]]

\* A handler that gives up the handles the thread had obtained.
OnExceptionReleases(ws, i) ==
    [ws EXCEPT ![i] = [@ EXCEPT !.state = "Failed", !.pc = "done",
                                !.logical_device = NoHandle, !.queue = NoHandle,
                                !.buffer = NoHandle, !.device_memory = NoHandle,
                                !.command_pool = NoHandle,
                                !.command_buffer = NoHandle,
                                !.log = Logged(ws[i], "error")]]

\* A handler that logs the error and starts the function over.
OnExceptionRestarts(ws, i) ==
    [ws EXCEPT ![i] = [@ EXCEPT !.state = "Initializing", !.pc = "select_queue",
                                !.log = Logged(ws[i], "error")]]

\* Lines 180-181: `except Exception` of thread i prints the error and the
\* function returns.
OnException(ws, i) ==
    [ws EXCEPT ![i] = [@ EXCEPT !.state = "Failed", !.pc = "done",
                                !.log = Logged(ws[i], "error")]]

\* The Vulkan call thread i is about to make raises.
WorkerFails(i) ==
    /\ CanRun(i)
    /\ workers[i].pc \in FalliblePcs
    /\ workers' = OnException(workers, i)
    /\ AfterWorkerStep(workers')
    /\ UNCHANGED << call, hw, exitStatus, objs, instances >>

WorkerStep(i) ==
    \/ SelectQueue(i)
    \/ CreateDevice(i)
    \/ CreateBuffer(i)
    \/ SelectMemory(i)
    \/ Allocate(i)
    \/ Bind(i)
    \/ CreatePool(i)
    \/ AllocCmdBuf(i)
    \/ Begin(i)
    \/ Fill(i)
    \/ End(i)
    \/ Submit(i)
    \/ WaitIdle(i)
    \/ Sleep(i)

\* No call of find_memory_type on its own.
NoCall == [memoryTypes |-> << >>, type_filter |-> 0, properties |-> 0,
           done |-> FALSE, result |-> None]

Init ==
    /\ hw \in SeqsUpTo(PhysicalDeviceProfiles, MaxDevices)
    /\ sup = [pc |-> "enumerate", enumerated |-> FALSE, gpus |-> << >>,
              inventory |-> << >>, i |-> 0, raised |-> "none", at |-> "none",
              api |-> "none"]
    /\ exitStatus = << >>
    /\ workers = << >>
    /\ objs = << >>
    /\ instances = 0
    /\ call = NoCall

Next ==
    \/ Enumerate
    \/ PrintInventory
    \/ Spawn
    \/ SpawnFails
    \/ Pause
    \/ Interrupt
    \/ \E i \in 1..MaxDevices : WorkerStep(i)
    \/ \E i \in 1..MaxDevices : WorkerFails(i)

Spec == Init /\ [][Next]_vars

\* The host schedules every thread that can take a step: the main thread's
\* own steps and each worker thread's next call.  Errors and the interrupt
\* come from outside and need not happen.
Fairness ==
    /\ WF_vars(Enumerate \/ PrintInventory \/ Spawn \/ Pause)
    /\ \A i \in 1..MaxDevices : WF_vars(WorkerStep(i))

FairSpec == Spec /\ Fairness

(***************************************************************************)
(* find_memory_type on its own: one call on an arbitrary memory table, type *)
(* filter and required flags.                                               *)
(***************************************************************************)
\* Property flags of a memory type, and required flags: two flag bits.
MemoryPropertyFlagValues == 0..3

\* The tables of up to MaxTypes memory types; the filter has one bit more
\* than the longest table has types.
FindInputs ==
    [memoryTypes : SeqsUpTo(MemoryPropertyFlagValues, MaxTypes),
     type_filter : 0..(2 ^ (MaxTypes + 1) - 1),
     properties : MemoryPropertyFlagValues,
     done : { FALSE }, result : { None }]

FindInit ==
    /\ call \in FindInputs
    /\ hw = << >>
    /\ sup = [pc |-> "enumerate", enumerated |-> FALSE, gpus |-> << >>,
              inventory |-> << >>, i |-> 0, raised |-> "none", at |-> "none",
              api |-> "none"]
    /\ exitStatus = << >>
    /\ workers = << >>
    /\ objs = << >>
    /\ instances = 0

\* Lines 44-53: the call returns.
FindCall ==
    /\ ~ call.done
    /\ call' = [call EXCEPT
                   !.done = TRUE,
                   !.result = find_memory_type([memoryTypes |-> call.memoryTypes],
                                               call.type_filter, call.properties)]
    /\ UNCHANGED << hw, sup, exitStatus, workers, objs, instances >>

FindSpec == FindInit /\ [][FindCall]_vars

(***************************************************************************)
(* Properties.                                                             *)
(***************************************************************************)
Threads == DOMAIN workers

Exited == exitStatus # << >>

HandleNames ==
    { "logical_device", "queue", "buffer", "device_memory", "command_pool",
      "command_buffer" }

ObjectsOf(i) == { h \in DOMAIN objs : h.creator = i }

CreatedBy(i, kind) == { h \in ObjectsOf(i) : h.kind = kind }

\* The device thread i works on, as the Vulkan loader describes it.
DeviceOf(i) == hw[workers[i].physical_device]

\* Some queue family of the device has the compute or the graphics bit.
HasComputeOrGraphicsFamily(dev) ==
    \E k \in 1..Len(dev.queueFlags) :
        \/ (dev.queueFlags[k] \div VK_QUEUE_GRAPHICS_BIT) % 2 = 1
        \/ (dev.queueFlags[k] \div VK_QUEUE_COMPUTE_BIT) % 2 = 1

\* Some memory type of the device is allowed for the buffer and device-local.
HasAllowedDeviceLocalType(dev) ==
    \E k \in 1..Len(dev.memoryTypes) :
        /\ (dev.memoryTypeBits \div (2 ^ (k - 1))) % 2 = 1
        /\ (dev.memoryTypes[k] \div VK_MEMORY_PROPERTY_DEVICE_LOCAL_BIT) % 2 = 1

Submissions(i) ==
    IF workers[i].queue \in DOMAIN objs THEN objs[workers[i].queue].count ELSE 0

\* A step in which thread i fails changes nothing but thread i's record.
C1_FailureStep ==
    \A i \in Threads :
        (workers[i].state # "Failed" /\ workers'[i].state = "Failed")
        => /\ \A j \in Threads \ { i } : workers'[j] = workers[j]
           /\ DOMAIN workers' = DOMAIN workers
           /\ objs' = objs
           /\ sup' = sup
           /\ exitStatus' = exitStatus

\* A Running thread of a process that has not ended can take its next step.
C1_RunningCanStep ==
    \A j \in Threads :
        (workers[j].state = "Running" /\ ~ Exited) => ENABLED WorkerStep(j)

\* C1 (isolation): a step in which thread i fails changes thread i's record
\* only: every other thread's record, every Vulkan object, the main thread
\* and the exit status stay as they were; and in every state a Running
\* thread of a process that has not ended can take its next step, whatever
\* the other threads have done.
C1_Isolation == [][C1_FailureStep]_vars /\ []C1_RunningCanStep

\* One thread failed inside its loop, a sibling submitted, the supervisor idles.
C1_Witness ==
    \E i, j \in Threads :
        /\ i # j
        /\ workers[i].state = "Failed" /\ workers[i].iteration >= 1
        /\ workers[j].state = "Running" /\ workers[j].pc = "wait_idle"
        /\ Submissions(j) = MaxIter
        /\ sup.pc = "idle" /\ ~ Exited

\* GPU number i (position i of the enumerated list) passes both selections.
Eligible(i) ==
    /\ sup.enumerated
    /\ i \in 1..Len(sup.gpus)
    /\ HasComputeOrGraphicsFamily(sup.gpus[i].props)
    /\ HasAllowedDeviceLocalType(sup.gpus[i].props)

JustSubmitted(i) ==
    i \in Threads /\ workers[i].state = "Running" /\ workers[i].pc = "wait_idle"

HasFailed(i) == i \in Threads /\ workers[i].state = "Failed"

\* A submission that returned from its wait is followed by the sleep.
C2_SleepFollows ==
    \A i \in Threads :
        (workers[i].pc = "wait_idle" /\ workers'[i] # workers[i])
        => (workers'[i].pc = "sleep" \/ workers'[i].state = "Failed")

\* C2 as stated: the thread of a GPU that passes both selections submits
\* again and again unless the process ends.
C2_Original ==
    \A i \in 1..MaxDevices : Eligible(i) ~> (JustSubmitted(i) \/ Exited)

\* C2 (amended): the thread of a GPU that passes both selections submits
\* again and again, each submission followed by the sleep, unless the
\* process ends or one of the thread's Vulkan calls raises (the thread is
\* then Failed).
C2_SubmitsForever ==
    /\ \A i \in 1..MaxDevices :
          Eligible(i) ~> (JustSubmitted(i) \/ Exited \/ HasFailed(i))
    /\ [][C2_SleepFollows]_vars

\* A thread that has submitted, slept and submitted again.
C2_Witness ==
    \E i \in Threads :
        /\ Eligible(i) /\ JustSubmitted(i)
        /\ workers[i].iteration >= 1 /\ Submissions(i) = MaxIter
        /\ ~ Exited

\* C3: once enumeration has returned no GPU the process has exited with
\* status 1 and no thread was ever started.
C3_NoGpusExitsOne ==
    (sup.enumerated /\ Len(sup.gpus) = 0)
    => /\ exitStatus = << 1 >>
       /\ sup.pc = "exited"
       /\ sup.raised = "SystemExit"
       /\ workers = << >>
       /\ objs = << >>

\* The machine has devices, none of them a GPU, and the process has exited.
C3_Witness ==
    /\ sup.enumerated /\ Len(sup.gpus) = 0
    /\ Len(hw) > 0 /\ instances = 1
    /\ exitStatus = << 1 >>

\* Thread i's device has no queue family with the compute or graphics bit.
LacksQueue(i) == ~ HasComputeOrGraphicsFamily(DeviceOf(i))

\* Thread i's device has such a family but no allowed device-local memory type.
LacksMemoryType(i) ==
    /\ HasComputeOrGraphicsFamily(DeviceOf(i))
    /\ ~ HasAllowedDeviceLocalType(DeviceOf(i))

HoldsNothing(i) == \A name \in HandleNames : workers[i][name] = NoHandle

\* C4: the thread of a device without a compute or graphics queue family is
\* SkippedNoQueue as soon as it has taken its first step, and in no state has
\* it created a logical device, a buffer, memory, a command pool or a
\* command buffer, or submitted anything.
C4_NoQueueSkips ==
    \A i \in Threads :
        LacksQueue(i)
        => /\ workers[i].state \in { "Initializing", "SkippedNoQueue" }
           /\ (workers[i].pc # "select_queue"
               => workers[i].state = "SkippedNoQueue" /\ workers[i].pc = "done")
           /\ ObjectsOf(i) = { }
           /\ HoldsNothing(i)
           /\ Submissions(i) = 0
           /\ workers[i].iteration = 0

\* Such a thread has been skipped while a sibling runs.
C4_Witness ==
    \E i, j \in Threads :
        /\ LacksQueue(i) /\ workers[i].state = "SkippedNoQueue"
        /\ workers[j].state = "Running" /\ Submissions(j) >= 1

\* What C5 says the thread never does, and when it skips.
C5_NeverAllocatesNorSubmits ==
    \A i \in Threads :
        LacksMemoryType(i)
        => /\ workers[i].state # "Running"
           /\ CreatedBy(i, "memory") = { }
           /\ CreatedBy(i, "pool") = { }
           /\ CreatedBy(i, "cmdbuf") = { }
           /\ workers[i].device_memory = NoHandle
           /\ Submissions(i) = 0
           /\ workers[i].iteration = 0
           /\ (workers[i].state = "SkippedNoMemoryType"
               => /\ workers[i].queue_family_index # None
                  /\ workers[i].logical_device \in DOMAIN objs
                  /\ workers[i].queue \in DOMAIN objs
                  /\ workers[i].buffer \in DOMAIN objs)

\* C5 as stated: the thread that has ended has ended in SkippedNoMemoryType.
C5_Original ==
    /\ C5_NeverAllocatesNorSubmits
    /\ \A i \in Threads :
          (LacksMemoryType(i) /\ workers[i].pc = "done")
          => workers[i].state = "SkippedNoMemoryType"

\* C5 (amended): the thread of a device with a compute or graphics family but
\* no allowed device-local memory type ends in SkippedNoMemoryType, after
\* queue selection succeeded, unless vkCreateDevice or vkCreateBuffer raised
\* before the memory type was looked for, in which case it ends in Failed;
\* either way it never allocates memory and never submits.
C5_NoMemoryTypeSkips ==
    /\ C5_NeverAllocatesNorSubmits
    /\ \A i \in Threads :
          (LacksMemoryType(i) /\ workers[i].pc = "done")
          => \/ workers[i].state = "SkippedNoMemoryType"
             \/ /\ workers[i].state = "Failed"
                /\ workers[i].buffer = NoHandle
                /\ workers[i].memory_type_index = None

C5_Witness ==
    \E i \in Threads :
        /\ LacksMemoryType(i) /\ workers[i].state = "SkippedNoMemoryType"
        /\ CreatedBy(i, "buffer") # { } /\ CreatedBy(i, "memory") = { }

ObjectKinds == { "device", "queue", "buffer", "memory", "pool", "cmdbuf" }

HasRun(i) == workers[i].command_buffer # NoHandle

\* Every object kind exists once for a thread that reached its loop, the
\* queue only ever got the thread's command buffer and the command buffer
\* only ever a fill of the thread's buffer.
C6_OneOfEach ==
    \A i \in Threads :
        HasRun(i)
        => /\ \A kind \in ObjectKinds : Cardinality(CreatedBy(i, kind)) = 1
           /\ \A name \in HandleNames : workers[i][name] \in ObjectsOf(i)
           /\ objs[workers[i].queue].ref \in { NoHandle, workers[i].command_buffer }
           /\ objs[workers[i].command_buffer].ref \in { NoHandle, workers[i].buffer }
           /\ objs[workers[i].buffer].ref = workers[i].device_memory

\* A step of a Running thread creates no object and keeps the thread's handles.
C6_LoopStep ==
    \A i \in Threads :
        workers[i].state = "Running"
        => /\ { h \in DOMAIN objs' : h.creator = i } = ObjectsOf(i)
           /\ \A name \in HandleNames : workers'[i][name] = workers[i][name]

\* C6: a thread that reached its loop has created exactly one logical
\* device, queue handle, buffer, memory block, command pool and command
\* buffer, however many iterations it has made; every iteration records the
\* fill of the same buffer into the same command buffer and submits it; no
\* step of the loop creates an object.
C6_SingleAllocation == []C6_OneOfEach /\ [][C6_LoopStep]_vars

\* A thread in a later pass through the loop, the fill recorded again.
C6_Witness ==
    \E i \in Threads :
        /\ workers[i].state = "Running" /\ workers[i].iteration = MaxIter
        /\ workers[i].pc = "end"
        /\ objs[workers[i].command_buffer].ref = workers[i].buffer
        /\ objs[workers[i].queue].ref = workers[i].command_buffer

\* C7: the process has exited with status 0 when the exception that left the
\* supervisor's try body was the interrupt, wherever in the body it arrived,
\* and with status 1 when it was any other error; the exit is immediate.
C7_ExitCodes ==
    /\ sup.raised = "KeyboardInterrupt" => exitStatus = << 0 >> /\ sup.pc = "exited"
    /\ sup.raised = "Exception" => exitStatus = << 1 >> /\ sup.pc = "exited"
    /\ sup.raised = "SystemExit" => exitStatus = << 1 >> /\ sup.pc = "exited"
    /\ sup.raised = "none" => exitStatus = << >> /\ sup.pc \in TryBodyPcs
    /\ sup.pc \in TryBodyPcs => ENABLED Interrupt

\* Interrupted between two thread starts, the first thread already running.
C7_Witness ==
    /\ sup.raised = "KeyboardInterrupt" /\ sup.at = "spawn"
    /\ Len(workers) = 1 /\ Len(sup.gpus) > 1
    /\ workers[1].state = "Running"
    /\ exitStatus = << 0 >>

\* C8: once the process has an exit status it has ended (it does not wait
\* for a thread) and no thread can take a step or fail any more.
C8_ExitStopsWorkers ==
    Exited
    => /\ sup.pc = "exited"
       /\ \A i \in Threads : ~ ENABLED (WorkerStep(i) \/ WorkerFails(i))
       /\ ~ ENABLED Next

\* The process ended with one thread waiting for its queue and one in setup.
C8_Witness ==
    /\ Exited
    /\ \E i, j \in Threads :
          /\ workers[i].pc = "wait_idle"
          /\ workers[j].state = "Initializing" /\ workers[j].pc = "allocate"

HasLoggedError(w) == \E k \in 1..Len(w.log) : w.log[k].what = "error"

C9_CaughtAndFinal ==
    \A i \in Threads :
        /\ workers[i].gpu_index = i - 1
        /\ Cardinality({ j \in Threads : workers[j].gpu_index = workers[i].gpu_index }) = 1
        /\ HasLoggedError(workers[i]) <=> workers[i].state = "Failed"
        /\ workers[i].state = "Failed"
           => /\ workers[i].pc = "done"
              /\ workers[i].log[Len(workers[i].log)] =
                     [what |-> "error", gpu_index |-> i - 1]

C9_NoRestartStep ==
    /\ Len(workers) <= Len(workers')
    /\ \A i \in Threads :
          /\ workers[i].state = "Failed" => workers'[i] = workers[i]
          /\ (workers[i].state # "Failed" /\ workers'[i].state = "Failed")
             => sup' = sup /\ exitStatus' = exitStatus

\* C9: an exception of a thread is caught in that thread: the thread becomes
\* Failed with the error logged under its own GPU index, the supervisor does
\* not see it, a Failed thread never changes again, and no GPU index has
\* more than one thread over the whole run.
C9_FailureIsFinal ==
    /\ []C9_CaughtAndFinal
    /\ [](Len(workers) <= Len(sup.gpus))
    /\ [][C9_NoRestartStep]_vars

\* The second thread failed after a completed iteration; the first runs on.
C9_Witness ==
    /\ Len(workers) = MaxDevices
    /\ workers[2].state = "Failed" /\ workers[2].iteration >= 1
    /\ workers[2].log[Len(workers[2].log)] = [what |-> "error", gpu_index |-> 1]
    /\ workers[1].state = "Running"
    /\ ~ Exited

Held(i) == { workers[i][name] : name \in HandleNames } \ { NoHandle }

\* Every handle a thread holds names an existing object which that thread
\* created, and every existing object is held by the thread that created it:
\* so each object has exactly one holder.
C10_Ownership ==
    /\ \A i \in Threads :
          /\ \A name \in HandleNames :
                workers[i][name] # NoHandle
                => workers[i][name] \in DOMAIN objs /\ workers[i][name].creator = i
          /\ workers[i].instance = 1
          /\ workers[i].physical_device = sup.gpus[i].device
    /\ \A h \in DOMAIN objs :
          /\ h.creator \in Threads
          /\ \E name \in HandleNames : workers[h.creator][name] = h
          /\ objs[h].parent # NoHandle => objs[h].parent.creator = h.creator
          /\ objs[h].ref # NoHandle => objs[h].ref.creator = h.creator
    /\ instances <= 1

\* A step changes or creates objects of one thread only, the thread whose
\* record changes; it leaves the device list alone, and only enumeration
\* creates the instance.
C10_PrivateStep ==
    /\ objs' # objs
       => /\ \A h \in DOMAIN objs' :
                (h \notin DOMAIN objs \/ objs'[h] # objs[h])
                => /\ h.creator \in Threads
                   /\ workers'[h.creator] # workers[h.creator]
                   /\ \A j \in Threads \ { h.creator } : workers'[j] = workers[j]
          /\ DOMAIN objs \subseteq DOMAIN objs'
    /\ hw' = hw
    /\ instances' # instances => sup.pc = "enumerate"
    /\ sup.enumerated => sup'.gpus = sup.gpus

\* C10: every Vulkan object is held by exactly one thread, the one that
\* created it; objects refer only to objects of the same thread; a thread's
\* step changes only that thread's objects; the instance and the device
\* list are the only things threads have in common and no thread's step
\* changes them.
C10_PrivateResources == []C10_Ownership /\ [][C10_PrivateStep]_vars

\* Two threads in their loops, each with its own six objects.
C10_Witness ==
    /\ Len(workers) = MaxDevices
    /\ \A i \in 1..2 :
          /\ workers[i].state = "Running" /\ workers[i].pc = "wait_idle"
          /\ Cardinality(Held(i)) = Cardinality(HandleNames)
    /\ workers[1].instance = workers[2].instance

\* Enumeration found exactly two GPUs: number a passes both selections,
\* number b has a compute or graphics family but no allowed device-local
\* memory type.
C11_Scenario(a, b) ==
    /\ a # b
    /\ sup.enumerated /\ Len(sup.gpus) = 2
    /\ Eligible(a)
    /\ b \in 1..Len(sup.gpus)
    /\ HasComputeOrGraphicsFamily(sup.gpus[b].props)
    /\ ~ HasAllowedDeviceLocalType(sup.gpus[b].props)

\* The inventory has one line per GPU, thread a is Running and has
\* submitted, thread b is SkippedNoMemoryType and has submitted nothing.
C11_Outcome(a, b) ==
    /\ Len(sup.inventory) = 2
    /\ \A k \in 1..2 : sup.inventory[k].device = sup.gpus[k].device
    /\ a \in Threads /\ workers[a].state = "Running" /\ Submissions(a) >= 1
    /\ b \in Threads /\ workers[b].state = "SkippedNoMemoryType"
    /\ Submissions(b) = 0

\* In the scenario the inventory never has more than the two lines and the
\* thread of b never allocates memory nor submits.
C11_Safety ==
    \A a, b \in 1..MaxDevices :
        C11_Scenario(a, b)
        => /\ Len(sup.inventory) <= 2
           /\ Len(workers) <= 2
           /\ b \in Threads
              => /\ workers[b].state \in
                       { "Initializing", "SkippedNoMemoryType", "Failed" }
                 /\ workers[b].device_memory = NoHandle
                 /\ Submissions(b) = 0

\* C11 as stated: with the two GPUs a and b the run always gets to the
\* outcome (unless the process ends first).
C11_Original ==
    \A a, b \in 1..MaxDevices :
        C11_Scenario(a, b) ~> (C11_Outcome(a, b) \/ Exited)

\* C11 (amended): with two GPUs, a passing both selections and b lacking an
\* allowed device-local memory type, every interleaving leads to the
\* inventory listing exactly the two devices, a Running with at least one
\* submission and b SkippedNoMemoryType with none, unless the process ends
\* or a Vulkan call of one of the two threads raises (that thread is then
\* Failed); and b never allocates memory nor submits.
C11_MixedDevices ==
    /\ \A a, b \in 1..MaxDevices :
          C11_Scenario(a, b)
          ~> (C11_Outcome(a, b) \/ Exited \/ HasFailed(a) \/ HasFailed(b))
    /\ []C11_Safety

\* The outcome itself, with the supervisor idle and a asleep after its
\* submission.
C11_Witness ==
    \E a, b \in Threads :
        /\ C11_Scenario(a, b) /\ C11_Outcome(a, b)
        /\ workers[a].pc = "sleep"
        /\ sup.pc = "idle" /\ ~ Exited

\* The step that follows each step of the loop body (lines 155-178).
C12_After(pc) ==
    CASE pc = "begin" -> "fill"
      [] pc = "fill" -> "end"
      [] pc = "end" -> "submit"
      [] pc = "submit" -> "wait_idle"
      [] pc = "wait_idle" -> "sleep"
      [] pc = "sleep" -> "begin"

\* A Running thread's step is the next one of the cycle, or its failure; the
\* command buffer becomes pending in the submit step only and leaves the
\* pending state in the wait-idle step only.
C12_CycleStep ==
    \A i \in Threads :
        (workers[i].state = "Running" /\ workers'[i] # workers[i])
        => LET cb == workers[i].command_buffer
           IN  /\ \/ workers'[i].state = "Failed"
                  \/ /\ workers'[i].state = "Running"
                     /\ workers'[i].pc = C12_After(workers[i].pc)
               /\ (objs[cb].state # "pending" /\ objs'[cb].state = "pending")
                  => workers[i].pc = "submit"
               /\ (objs[cb].state = "pending" /\ objs'[cb].state # "pending")
                  => workers[i].pc = "wait_idle"
               /\ (objs[cb].state # "recording" /\ objs'[cb].state = "recording")
                  => /\ workers[i].pc = "begin"
                     /\ objs[workers[i].queue].state = "idle"

\* What each position of the cycle finds: the command buffer is begun from
\* the initial or the executable state with the queue idle, is pending
\* exactly while the thread waits for the queue, and a sleeping thread has
\* submitted.
C12_Phase ==
    \A i \in Threads :
        workers[i].state = "Running"
        => LET pc == workers[i].pc
               cb == objs[workers[i].command_buffer]
               q == objs[workers[i].queue]
           IN  /\ pc \in { "begin", "fill", "end", "submit", "wait_idle", "sleep" }
               /\ pc = "begin"
                  => /\ cb.state \in { "initial", "executable" }
                     /\ cb.state = "initial" <=> workers[i].iteration = 0
                     /\ q.state = "idle"
               /\ pc = "fill" => cb.state = "recording" /\ cb.ref = NoHandle
               /\ pc = "end"
                  => cb.state = "recording" /\ cb.ref = workers[i].buffer
               /\ pc = "submit" => cb.state = "executable" /\ q.state = "idle"
               /\ pc = "wait_idle" <=> cb.state = "pending"
               /\ pc = "wait_idle" <=> q.state = "busy"
               /\ q.state = "busy" => q.ref = workers[i].command_buffer
               /\ pc = "sleep"
                  => /\ cb.state = "executable" /\ q.state = "idle"
                     /\ workers[i].iteration >= 1 /\ q.count >= 1
               /\ (pc = "begin" /\ workers[i].iteration = 0) => q.count = 0

\* C12: the steps of a Running thread follow the cycle begin, fill, end,
\* submit, wait-idle, sleep (a step whose call raises ends the thread
\* instead); the command buffer is begun only when no submission is in
\* flight; a thread sleeps only after it has submitted; and between two
\* submit steps lie exactly one wait-idle, one sleep, one begin, one fill
\* and one end.
C12_LoopOrder == [][C12_CycleStep]_vars /\ []C12_Phase

\* A thread about to begin its second recording: the first submission has
\* completed and the sleep is over.
C12_Witness ==
    \E i \in Threads :
        /\ workers[i].state = "Running" /\ workers[i].pc = "begin"
        /\ workers[i].iteration >= 1
        /\ objs[workers[i].command_buffer].state = "executable"
        /\ ~ Exited

\* The transitions of a worker's state: from Initializing to either skip, to
\* Running or to Failed; from Running to Failed; nothing else.
C13_Allowed ==
    { << "Initializing", "SkippedNoQueue" >>,
      << "Initializing", "SkippedNoMemoryType" >>,
      << "Initializing", "Running" >>,
      << "Initializing", "Failed" >>,
      << "Running", "Failed" >> }

C13_Terminal == { "SkippedNoQueue", "SkippedNoMemoryType", "Failed" }

\* A step changes a thread's state along an allowed transition only, and
\* changes nothing of a thread whose state is terminal.
C13_TransitionStep ==
    \A i \in Threads :
        /\ workers'[i].state # workers[i].state
           => << workers[i].state, workers'[i].state >> \in C13_Allowed
        /\ workers[i].state \in C13_Terminal => workers'[i] = workers[i]

\* A thread starts in Initializing and its state is one of the five; a
\* thread in a terminal state has returned.
C13_States ==
    \A i \in Threads :
        /\ workers[i].state \in { "Initializing", "Running" } \cup C13_Terminal
        /\ workers[i].state \in C13_Terminal <=> workers[i].pc = "done"
        /\ workers[i].pc = "select_queue" => workers[i].state = "Initializing"

\* C13: a worker's state changes only from Initializing to SkippedNoQueue,
\* SkippedNoMemoryType, Running or Failed, and from Running to Failed; the
\* two skipped states and Failed are absorbing; a Running worker never goes
\* back to Initializing nor to a skipped state.
C13_StateMachine == [][C13_TransitionStep]_vars /\ []C13_States

\* One thread failed after it had been Running, another one was skipped.
C13_Witness ==
    \E i, j \in Threads :
        /\ workers[i].state = "Failed" /\ HasRun(i) /\ workers[i].iteration >= 1
        /\ workers[j].state = "SkippedNoMemoryType"

\* Thread i works on GPU number i of the enumerated list, with index i - 1
\* (the code counts from 0), and there is at most one thread per GPU.
C14_OnePerDevice ==
    /\ Len(workers) <= Len(sup.gpus)
    /\ \A i \in Threads :
          /\ workers[i].gpu_index = i - 1
          /\ workers[i].physical_device = sup.gpus[i].device
          /\ workers[i].instance = sup.gpus[i].instance

\* The inventory is complete, line by line in enumeration order.
C14_InventoryPrinted ==
    /\ Len(sup.inventory) = Len(sup.gpus)
    /\ \A k \in 1..Len(sup.gpus) :
          /\ sup.inventory[k].index = k - 1
          /\ sup.inventory[k].device = sup.gpus[k].device

\* Where the supervisor is in its spawn loop: sup.i pauses have elapsed, and
\* the threads started are those of the first sup.i GPUs, plus one while the
\* supervisor pauses; in the idle loop every GPU has its thread.
C14_SpawnLoop ==
    /\ workers # << >> => C14_InventoryPrinted
    /\ sup.pc \in { "spawn", "pause", "idle" } => C14_InventoryPrinted
    /\ sup.pc = "spawn" => Len(workers) = sup.i /\ sup.i < Len(sup.gpus)
    /\ sup.pc = "pause" => Len(workers) = sup.i + 1
    /\ sup.pc = "idle"
       => Len(workers) = Len(sup.gpus) /\ sup.i = Len(sup.gpus) /\ Len(sup.gpus) >= 1

\* A step starts at most one thread, the one of the next GPU, when the
\* pauses after all earlier threads have elapsed; it leaves the threads
\* already started as they are, and no thread is ever removed.
C14_SpawnStep ==
    /\ Len(workers') \in { Len(workers), Len(workers) + 1 }
    /\ Len(workers') = Len(workers) + 1
       => /\ sup.pc = "spawn" /\ sup'.pc = "pause"
          /\ sup.i = Len(workers)
          /\ \A j \in Threads : workers'[j] = workers[j]
          /\ workers'[Len(workers')].pc = "select_queue"
    /\ sup'.i # sup.i => sup.pc = "pause" /\ sup'.i = sup.i + 1

\* C14: there is one thread per discovered GPU, started in enumeration
\* order, thread i on GPU i's tuple with index i; the whole inventory is
\* printed before the first thread starts; the thread of the next GPU starts
\* only after the previous one was started and the pause after it elapsed;
\* once the supervisor idles every GPU has exactly one thread.
C14_SpawnOrder ==
    /\ []C14_OnePerDevice
    /\ []C14_SpawnLoop
    /\ [][C14_SpawnStep]_vars

\* The first thread has already submitted while the supervisor, having
\* started the second thread, is still in the pause after it.
C14_Witness ==
    /\ sup.pc = "pause" /\ sup.i = 1 /\ Len(workers) = 2
    /\ workers[1].state = "Running" /\ Submissions(1) >= 1
    /\ workers[2].pc = "select_queue"
    /\ workers[2].physical_device # workers[1].physical_device

\* Bit b of the number x.
C15_Bit(x, b) == (x \div (2 ^ b)) % 2 = 1

\* The indices below memoryTypeCount whose bit is set in the filter and
\* whose flags contain every required flag.
C15_Suitable ==
    { i \in 0..(Len(call.memoryTypes) - 1) :
        /\ C15_Bit(call.type_filter, i)
        /\ \A b \in 0..1 :
              C15_Bit(call.properties, b) => C15_Bit(call.memoryTypes[i + 1], b) }

\* The result is the smallest suitable index, and None exactly when there is
\* none.
C15_Result ==
    call.done
    => /\ call.result = None <=> C15_Suitable = {}
       /\ C15_Suitable # {}
          => /\ call.result \in C15_Suitable
             /\ \A i \in C15_Suitable : call.result <= i

\* The call changes nothing but its own result.
C15_PureStep ==
    /\ call'.memoryTypes = call.memoryTypes
    /\ call'.type_filter = call.type_filter
    /\ call'.properties = call.properties
    /\ UNCHANGED << hw, sup, exitStatus, workers, objs, instances >>

\* C15: find_memory_type returns the smallest index i below memoryTypeCount
\* with bit i of the filter set and with every required flag among the
\* type's flags; it returns None exactly when there is no such index; and it
\* changes no state.
C15_FindMemoryType == []C15_Result /\ [][C15_PureStep]_vars

\* The call returned index 2 although type 0 has the flags (the filter
\* excludes it) and type 1 is allowed by the filter (it lacks a flag).
C15_Witness ==
    /\ call.done /\ call.result = 2
    /\ call.properties = 3
    /\ Len(call.memoryTypes) = 3
    /\ call.memoryTypes[1] = 3 /\ ~ C15_Bit(call.type_filter, 0)
    /\ call.memoryTypes[2] = 1 /\ C15_Bit(call.type_filter, 1)

\* Device d of the machine is a discrete, integrated or virtual GPU.
C16_IsGpu(d) ==
    \/ hw[d].deviceType = VK_PHYSICAL_DEVICE_TYPE_DISCRETE_GPU
    \/ hw[d].deviceType = VK_PHYSICAL_DEVICE_TYPE_INTEGRATED_GPU
    \/ hw[d].deviceType = VK_PHYSICAL_DEVICE_TYPE_VIRTUAL_GPU

\* C16: when both Vulkan calls of get_all_gpus succeed, exactly one
\* VkInstance was created and the list returned holds exactly the machine's
\* discrete, integrated and virtual GPUs, each with its own properties and
\* with that one instance, in the order in which the API lists them; a
\* device of any other class is not in the list.
C16_Enumeration ==
    /\ instances <= 1
    /\ ~ sup.enumerated => sup.gpus = << >>
    /\ (sup.enumerated /\ sup.api = "ok")
       => LET g == sup.gpus
          IN  /\ instances = 1
              /\ \A k \in 1..Len(g) :
                    /\ g[k].device \in 1..Len(hw)
                    /\ C16_IsGpu(g[k].device)
                    /\ g[k].props = hw[g[k].device]
                    /\ g[k].instance = g[1].instance
              /\ \A k, l \in 1..Len(g) : k < l => g[k].device < g[l].device
              /\ \A d \in 1..Len(hw) :
                    C16_IsGpu(d) => \E k \in 1..Len(g) : g[k].device = d

\* The API lists a CPU device first and a GPU second: the list returned has
\* the GPU only.
C16_Witness ==
    /\ sup.enumerated /\ sup.api = "ok" /\ instances = 1
    /\ Len(hw) = 2
    /\ hw[1].deviceType = VK_PHYSICAL_DEVICE_TYPE_CPU
    /\ Len(sup.gpus) = 1 /\ sup.gpus[1].device = 2

\* C17: when vkCreateInstance or vkEnumeratePhysicalDevices raises,
\* get_all_gpus returns the empty list and raises nothing to the supervisor
\* (which sees no exception of its own: what ends the process is the
\* SystemExit of the zero-device branch), the process exits with status 1
\* and no thread is ever started.
C17_EnumerationFailure ==
    sup.api \in { "vkCreateInstance_fails", "vkEnumeratePhysicalDevices_fails" }
    => /\ sup.enumerated /\ sup.gpus = << >>
       /\ sup.raised = "SystemExit" /\ sup.at = "enumerate"
       /\ exitStatus = << 1 >>
       /\ sup.pc = "exited"
       /\ workers = << >> /\ objs = << >>
       /\ instances = (IF sup.api = "vkCreateInstance_fails" THEN 0 ELSE 1)

\* The instance was created, listing the devices failed on a machine that
\* has a GPU, and the process has exited.
C17_Witness ==
    /\ sup.api = "vkEnumeratePhysicalDevices_fails" /\ instances = 1
    /\ \E d \in 1..Len(hw) : C16_IsGpu(d)
    /\ sup.gpus = << >>
    /\ exitStatus = << 1 >>

\* Queue family k (counted from 0) of the device has the compute or the
\* graphics bit.
C18_Usable(dev, k) ==
    \/ (dev.queueFlags[k + 1] \div VK_QUEUE_GRAPHICS_BIT) % 2 = 1
    \/ (dev.queueFlags[k + 1] \div VK_QUEUE_COMPUTE_BIT) % 2 = 1

\* Once the scan is over the family selected is the lowest usable one (None
\* exactly when no family is usable); the logical device was created with
\* one queue of that family, the thread's queue handle is that queue, the
\* command pool was created for that family, and a queue that has ever been
\* submitted to is its thread's one queue, executing that thread's command
\* buffer out of that pool.
C18_Family ==
    \A i \in Threads :
        LET w == workers[i]
            dev == DeviceOf(i)
            qfi == w.queue_family_index
        IN  /\ w.pc = "select_queue" => qfi = None
            /\ w.pc # "select_queue"
               => /\ qfi = None
                     <=> \A k \in 0..(Len(dev.queueFlags) - 1) : ~ C18_Usable(dev, k)
                  /\ qfi # None
                     => /\ qfi \in 0..(Len(dev.queueFlags) - 1)
                        /\ C18_Usable(dev, qfi)
                        /\ \A k \in 0..(qfi - 1) : ~ C18_Usable(dev, k)
            /\ w.logical_device # NoHandle
               => /\ qfi # None
                  /\ objs[w.logical_device].index = qfi
                  /\ CreatedBy(i, "queue") = { w.queue }
                  /\ objs[w.queue].index = qfi
                  /\ objs[w.queue].parent = w.logical_device
            /\ w.command_pool # NoHandle
               => /\ objs[w.command_pool].index = qfi
                  /\ objs[w.command_pool].parent = w.logical_device
            /\ \A q \in CreatedBy(i, "queue") :
                  (objs[q].count > 0 \/ objs[q].state = "busy")
                  => /\ q = w.queue
                     /\ objs[q].ref = w.command_buffer
                     /\ objs[w.command_buffer].parent = w.command_pool

\* A submission of thread i makes thread i's queue busy and no other queue.
C18_SubmitStep ==
    \A i \in Threads :
        (workers[i].pc = "submit" /\ workers'[i].pc = "wait_idle")
        => /\ objs'[workers[i].queue].state = "busy"
           /\ objs'[workers[i].queue].ref = workers[i].command_buffer
           /\ \A q \in DOMAIN objs \ { workers[i].queue } :
                 q.kind = "queue" => objs'[q] = objs[q]

\* C18: a worker selects the lowest-index queue family that has the compute
\* or the graphics bit (either one suffices); that family index is the one
\* of the logical device's single queue, of the queue handle the worker
\* obtains and of the command pool; and every submission of the worker goes
\* to that one queue.
C18_QueueFamily == []C18_Family /\ [][C18_SubmitStep]_vars

\* A device whose family 0 can only transfer and whose families 1 and 2 are
\* both usable: the thread selected family 1 and has submitted to its queue.
C18_Witness ==
    \E i \in Threads :
        /\ Len(DeviceOf(i).queueFlags) = 3
        /\ ~ C18_Usable(DeviceOf(i), 0)
        /\ C18_Usable(DeviceOf(i), 1) /\ C18_Usable(DeviceOf(i), 2)
        /\ workers[i].queue_family_index = 1
        /\ workers[i].pc = "wait_idle"
        /\ objs[workers[i].queue].state = "busy"
        /\ objs[workers[i].command_pool].index = 1

\* The process has ended exactly when the main thread raised: by the
\* interrupt with status 0, or by an error of the main thread (the
\* zero-device exit, thread.start() raising) with status 1.
C19_Ends ==
    /\ sup.pc = "exited" <=> Exited
    /\ Exited <=> sup.raised # "none"
    /\ Exited
       => \/ sup.raised = "KeyboardInterrupt" /\ exitStatus = << 0 >>
          \/ sup.raised \in { "Exception", "SystemExit" } /\ exitStatus = << 1 >>
    /\ sup.raised = "SystemExit" => sup.at = "enumerate"
    /\ sup.raised = "Exception" => sup.at = "spawn"

\* In the idle loop spawning is complete, the process is alive whatever the
\* threads have come to, and the interrupt can still end it.
C19_Idle ==
    sup.pc = "idle"
    => /\ ~ Exited
       /\ Len(workers) = Len(sup.gpus)
       /\ ENABLED Interrupt

\* A step of a thread changes neither the main thread nor the exit status;
\* the only step of the main thread out of the idle loop is the interrupt;
\* the step that ends the process is a step of the main thread.
C19_Step ==
    /\ (\E i \in Threads : workers'[i] # workers[i])
       => sup' = sup /\ exitStatus' = exitStatus
    /\ (sup.pc = "idle" /\ sup' # sup)
       => /\ sup'.raised = "KeyboardInterrupt" /\ sup'.at = "idle"
          /\ exitStatus' = << 0 >>
    /\ exitStatus' # exitStatus
       => /\ exitStatus = << >> /\ sup'.raised # "none"
          /\ \A i \in Threads : workers'[i] = workers[i]

\* C19: no outcome of a worker makes the supervisor exit: once spawning is
\* complete the process stays in the idle loop, also when every worker has
\* terminated; the process ends only by the interrupt (status 0) or by an
\* error of the supervisor itself (status 1).
C19_SupervisorStays == []C19_Ends /\ []C19_Idle /\ [][C19_Step]_vars

\* Both threads have terminated, one Failed and one skipped, and the main
\* thread is still in its idle loop.
C19_Witness ==
    /\ sup.pc = "idle" /\ ~ Exited
    /\ Len(workers) = 2
    /\ workers[1].state = "Failed" /\ workers[2].state = "SkippedNoMemoryType"

\* The handles of a thread in the order in which the code obtains them.
C20_Sequence ==
    << "logical_device", "queue", "buffer", "device_memory", "command_pool",
       "command_buffer" >>

\* Thread i has bound its buffer to its memory block (between the memory
\* block and the command pool in the order).
C20_Bound(i) ==
    /\ workers[i].buffer # NoHandle
    /\ objs[workers[i].buffer].state = "bound"
    /\ objs[workers[i].buffer].ref = workers[i].device_memory

\* Thread i holds all six handles and its buffer is bound.
C20_HoldsAll(i) ==
    /\ \A k \in 1..6 : workers[i][C20_Sequence[k]] # NoHandle
    /\ C20_Bound(i)

\* Each resource is held only together with all the earlier ones; every
\* handle held names an object that exists; a thread in its loop, and one
\* that has ever submitted, holds all of them; a thread skipped for want of
\* a memory type holds its logical device, queue and buffer and nothing more.
C20_Order ==
    \A i \in Threads :
        LET w == workers[i]
        IN  /\ \A k \in 2..6 :
                  w[C20_Sequence[k]] # NoHandle => w[C20_Sequence[k - 1]] # NoHandle
            /\ C20_Bound(i) => w.device_memory # NoHandle
            /\ w.command_pool # NoHandle => C20_Bound(i)
            /\ Held(i) \subseteq ObjectsOf(i)
            /\ (w.state = "Running" \/ Submissions(i) > 0) => C20_HoldsAll(i)
            /\ w.state = "SkippedNoMemoryType"
               => /\ w.logical_device # NoHandle /\ w.queue # NoHandle
                  /\ w.buffer # NoHandle /\ objs[w.buffer].state = "unbound"
                  /\ w.device_memory = NoHandle
            /\ w.state = "SkippedNoQueue" => HoldsNothing(i)

\* No step removes an object, takes a handle from a thread, or unbinds a
\* buffer; the step that submits is taken with everything held.
C20_GrowStep ==
    /\ objs' # objs
       => /\ DOMAIN objs \subseteq DOMAIN objs'
          /\ \A h \in DOMAIN objs :
                /\ objs'[h].parent = objs[h].parent
                /\ objs[h].state = "bound"
                   => objs'[h].state = "bound" /\ objs'[h].ref = objs[h].ref
    /\ \A i \in Threads :
          workers'[i] # workers[i]
          => /\ \A k \in 1..6 :
                   workers[i][C20_Sequence[k]] # NoHandle
                   => workers'[i][C20_Sequence[k]] = workers[i][C20_Sequence[k]]
             /\ (workers[i].pc = "submit" /\ workers'[i].pc = "wait_idle")
                => C20_HoldsAll(i)

\* C20: the resources a worker holds only grow, no step destroys or frees
\* one; they are acquired in the order logical device, queue, buffer,
\* memory block, memory binding, command pool, command buffer; a submission
\* is made only when all are held and the memory is bound; a worker that is
\* SkippedNoMemoryType or has failed during setup keeps the logical device
\* and the buffer it had created.
C20_Resources == []C20_Order /\ [][C20_GrowStep]_vars

\* One thread was skipped for want of a memory type, another failed in
\* vkAllocateMemory: both still hold their logical device and their buffer.
C20_Witness ==
    \E i, j \in Threads :
        /\ workers[i].state = "SkippedNoMemoryType"
        /\ workers[i].logical_device \in DOMAIN objs
        /\ workers[i].buffer \in DOMAIN objs
        /\ workers[j].state = "Failed"
        /\ workers[j].memory_type_index # None
        /\ workers[j].buffer \in DOMAIN objs
        /\ workers[j].logical_device \in DOMAIN objs
        /\ workers[j].device_memory = NoHandle
====
